---- MODULE Spec2Model ----
(***************************************************************************)
(* Model of server/main.py: the path server that resolves slash-delimited  *)
(* paths over the segment / content / segment_relation / content_binary    *)
(* tables, with the PostgreSQL-function strategy and the multi-query       *)
(* fallback.                                                                *)
(*                                                                         *)
(* Strings that the code takes apart (content values, blob data, response  *)
(* bodies) are sequences of one-character strings; ids and names, which    *)
(* the code only compares, are plain strings.                              *)
(***************************************************************************)
EXTENDS Integers, Sequences, FiniteSets, TLC

VARIABLES
    db,        \* the backend tables (read-only for the server)
    req,       \* the request last handled by handle_path
    calls,     \* the strategy / backend functions that request invoked, in order
    pg_result, \* what the PostgreSQL-function strategy returned to that request
    result,    \* the last strategy result dict of that request
    response,  \* the HTTP response handle_path returned
    children   \* the last value returned by get_children_ids (SpecChildren)

vars == <<db, req, calls, pg_result, result, response, children>>

-----------------------------------------------------------------------------
(* Bounds of the model *)

MaxRels == 3        \* rows of segment_relation in a fixture
MaxPathLen == 2     \* name tokens in a request path
MaxBytes == 2       \* length of the byte strings stored as blobs
MaxChildRels == 2   \* rows of segment_relation in a fixture of SpecChildren

-----------------------------------------------------------------------------
(* Python values *)

\* None, as an id (resolve_path_to_id's Optional[str]) and as a column value.
None == "<None>"
NoneValue == <<"<None>">>

\* `not x` for an Optional[str] id: None and the empty string are falsy.
Falsy(x) == x = None \/ x = ""

RECURSIVE SeqToSet(_)
SeqToSet(s) == IF s = <<>> THEN {} ELSE {Head(s)} \cup SeqToSet(Tail(s))

RECURSIVE SetToSeq(_)
SetToSeq(S) == IF S = {} THEN <<>>
               ELSE LET x == CHOOSE y \in S : TRUE IN <<x>> \o SetToSeq(S \ {x})

\* [f(x) for x in s if p(x)] helpers
RECURSIVE FilterRel(_, _, _)
FilterRel(rows, src, t) ==
    IF rows = <<>> THEN <<>>
    ELSE LET r == Head(rows)
             rest == FilterRel(Tail(rows), src, t)
         IN IF r.type = t /\ (src = None \/ r.segment_1 = src)
            THEN <<r.segment_2>> \o rest ELSE rest

StartsWith(s, p) == Len(s) >= Len(p) /\ SubSeq(s, 1, Len(p)) = p

-----------------------------------------------------------------------------
(* Multi-query primitives *)

\* supabase.table('segment').select(..).eq('id', id): the rows with that id
SegmentRows(d, id) == {s \in d.segment : s.id = id}
ContentRows(d, id) == {c \in d.content : c.id = id}
BinaryRows(d, id) == {b \in d.content_binary : b.id = id}

is_content(d, item_id) == ContentRows(d, item_id) # {}

\* get_children_ids without the .eq('type', 0) filters
RECURSIVE TargetsOfAnyType(_, _)
TargetsOfAnyType(rows, src) ==
    IF rows = <<>> THEN <<>>
    ELSE LET r == Head(rows)
             rest == TargetsOfAnyType(Tail(rows), src)
         IN IF src = None \/ r.segment_1 = src THEN <<r.segment_2>> \o rest ELSE rest

get_children_ids_untyped(d, parent_id) ==
    IF parent_id = None
    THEN SetToSeq({s.id : s \in d.segment}
                  \ SeqToSet(TargetsOfAnyType(d.segment_relation, None)))
    ELSE TargetsOfAnyType(d.segment_relation, parent_id)

\* The list get_children_ids returns.  For the root the code builds the list
\* from a Python set, whose order is unspecified; the fixtures keep the names of
\* root segments distinct, so that no result depends on that order.
get_children_ids(d, parent_id) ==
    IF parent_id = None
    THEN LET all_ids == {s.id : s \in d.segment}
             child_ids == SeqToSet(FilterRel(d.segment_relation, None, 0))
         IN SetToSeq(all_ids \ child_ids)
    ELSE FilterRel(d.segment_relation, parent_id, 0)

\* The inner for/else of resolve_path_to_id: the first child whose segment row
\* carries the name, None when the loop runs out.
RECURSIVE FindChild(_, _, _)
FindChild(d, child_ids, seg_name) ==
    IF child_ids = <<>> THEN None
    ELSE LET rows == SegmentRows(d, Head(child_ids))
         IN IF rows # {} /\ (CHOOSE r \in rows : TRUE).name = seg_name
            THEN Head(child_ids)
            ELSE FindChild(d, Tail(child_ids), seg_name)

RECURSIVE ResolveFrom(_, _, _)
ResolveFrom(d, current_parent, segments) ==
    IF segments = <<>> THEN current_parent
    ELSE LET c == FindChild(d, get_children_ids(d, current_parent), Head(segments))
         IN IF c = None THEN None ELSE ResolveFrom(d, c, Tail(segments))

resolve_path_to_id(d, segments) ==
    IF segments = <<>> THEN None ELSE ResolveFrom(d, None, segments)

-----------------------------------------------------------------------------
(* Strategy results: the dicts {'code': .., 'message': .., 'data': {..}}.     *)
(* raised = TRUE stands for an exception leaving the function instead.        *)

NoContent == [id |-> "", type_code |-> 0, value |-> <<>>]

Failure(code, message) ==
    [raised |-> FALSE, code |-> code, message |-> message, items |-> <<>>,
     has_segment_id |-> FALSE, segment_id |-> None, content |-> NoContent,
     content_type |-> "", value |-> <<>>, is_binary |-> FALSE, tree |-> {}]

Raised == [Failure(0, "exception") EXCEPT !.raised = TRUE]

Listing(items, has_segment_id, segment_id) ==
    [Failure(0, "") EXCEPT !.items = items, !.has_segment_id = has_segment_id,
                           !.segment_id = segment_id]

Payload(content, content_type, value, is_binary) ==
    [Failure(0, "") EXCEPT !.content = content, !.content_type = content_type,
                           !.value = value, !.is_binary = is_binary]

-----------------------------------------------------------------------------
(* Multi-query strategy *)

\* The item loop of get_children_multi_query: children without a segment row
\* are left out; item_type is 'content' when the id is also a content id.
RECURSIVE ItemsOf(_, _)
ItemsOf(d, ids) ==
    IF ids = <<>> THEN <<>>
    ELSE LET rows == SegmentRows(d, Head(ids))
             rest == ItemsOf(d, Tail(ids))
         IN IF rows = {} THEN rest
            ELSE LET row == CHOOSE r \in rows : TRUE
                 IN <<[id |-> row.id, name |-> row.name,
                       item_type |-> IF is_content(d, Head(ids))
                                     THEN "content" ELSE "segment"]>> \o rest

\* tables_down: every supabase.table(..).execute() of this request raises.
get_children_multi_query(d, tables_down, segments) ==
    IF tables_down THEN Raised
    ELSE IF segments = <<>>
    THEN Listing(ItemsOf(d, get_children_ids(d, None)), FALSE, None)
    ELSE LET item_id == resolve_path_to_id(d, segments)
         IN IF Falsy(item_id) THEN Failure(-1, "Path does not exist")
            ELSE Listing(ItemsOf(d, get_children_ids(d, item_id)), TRUE, item_id)

\* for rel in rows: if is_content(candidate): content_id = candidate; break
RECURSIVE FirstContent(_, _)
FirstContent(d, ids) ==
    IF ids = <<>> THEN None
    ELSE IF is_content(d, Head(ids)) THEN Head(ids)
    ELSE FirstContent(d, Tail(ids))

\* .eq('segment_1', item_id).eq('type', 2).limit(1): only the first bind row
BoundContent(d, item_id) ==
    LET bind_result == FilterRel(d.segment_relation, item_id, 2)
    IN IF bind_result # <<>> /\ is_content(d, Head(bind_result))
       THEN Head(bind_result) ELSE None

DirectContent(d, item_id) == FirstContent(d, FilterRel(d.segment_relation, item_id, 0))

IndirectContent(d, item_id) == FirstContent(d, FilterRel(d.segment_relation, item_id, 1))

\* Lines 207-243: the content id for a resolved id, None for 'not found'.
ContentIdFor(d, item_id) ==
    IF is_content(d, item_id) THEN item_id
    ELSE LET bound == BoundContent(d, item_id)
         IN IF ~Falsy(bound) THEN bound
            ELSE LET direct == DirectContent(d, item_id)
                 IN IF ~Falsy(direct) THEN direct
                    ELSE IndirectContent(d, item_id)

BinaryMarker == <<"b", "i", "n", "a", "r", "y", ":">>
BinaryMarkerLen == 7

BinaryContentType(type_code) ==
    IF type_code = 10 THEN "image/png"
    ELSE IF type_code = 21 THEN "application/pdf"
    ELSE "application/octet-stream"

TextContentType(type_code) ==
    CASE type_code = 1 -> "text/plain"
      [] type_code = 2 -> "text/html"
      [] type_code = 3 -> "text/markdown"
      [] type_code = 10 -> "image/png"
      [] type_code = 21 -> "application/pdf"
      [] OTHER -> "text/plain"

\* The part both strategies share once they hold a content row: the binary
\* indirection and the MIME type.  A null value makes value.startswith raise.
Materialize(d, tables_down, content) ==
    LET type_code == content.type_code
        value == content.value
    IN IF value = NoneValue THEN Raised
       ELSE IF StartsWith(value, BinaryMarker)
       THEN LET binary_id == SubSeq(value, BinaryMarkerLen + 1, Len(value))
                rows == BinaryRows(d, binary_id)
            IN IF tables_down THEN Raised
               ELSE IF rows = {} THEN Failure(-4, "Binary data not found")
               ELSE Payload(content, BinaryContentType(type_code),
                            (CHOOSE b \in rows : TRUE).data, TRUE)
       ELSE Payload(content, TextContentType(type_code), value, FALSE)

get_content_multi_query(d, tables_down, segments) ==
    IF tables_down /\ segments # <<>> THEN Raised
    ELSE LET item_id == resolve_path_to_id(d, segments)
         IN IF Falsy(item_id) THEN Failure(-1, "Path does not exist")
            ELSE LET content_id == ContentIdFor(d, item_id)
                 IN IF Falsy(content_id)
                    THEN Failure(-2, "Content not found (no bound, direct, or indirect child content)")
                    ELSE LET rows == ContentRows(d, content_id)
                         IN IF rows = {} THEN Failure(-3, "Content not found")
                            ELSE Materialize(d, tables_down, CHOOSE c \in rows : TRUE)

-----------------------------------------------------------------------------
(* Text and byte conversions used by the binary branch of handle_path *)

\* The printable ASCII characters, code 32 (space) to 126 (tilde); code 96
\* is written as the token "grave".
AsciiChars ==
    <<
       " ", "!", "\"", "#", "$", "%", "&", "'", "(", ")", "*", "+", ",",
       "-", ".", "/", "0", "1", "2", "3", "4", "5", "6", "7", "8", "9",
       ":", ";", "<", "=", ">", "?", "@", "A", "B", "C", "D", "E", "F",
       "G", "H", "I", "J", "K", "L", "M", "N", "O", "P", "Q", "R", "S",
       "T", "U", "V", "W", "X", "Y", "Z", "[", "\\", "]", "^", "_", "grave",
       "a", "b", "c", "d", "e", "f", "g", "h", "i", "j", "k", "l", "m",
       "n", "o", "p", "q", "r", "s", "t", "u", "v", "w", "x", "y", "z",
       "{", "|", "}", "~"
    >>

\* The base64 alphabet, in value order.
B64Chars ==
    <<
       "A", "B", "C", "D", "E", "F", "G", "H", "I", "J", "K", "L", "M",
       "N", "O", "P", "Q", "R", "S", "T", "U", "V", "W", "X", "Y", "Z",
       "a", "b", "c", "d", "e", "f", "g", "h", "i", "j", "k", "l", "m",
       "n", "o", "p", "q", "r", "s", "t", "u", "v", "w", "x", "y", "z",
       "0", "1", "2", "3", "4", "5", "6", "7", "8", "9", "+", "/"
    >>

HexChars == <<"0", "1", "2", "3", "4", "5", "6", "7", "8", "9",
              "a", "b", "c", "d", "e", "f">>
HexUpper == <<"0", "1", "2", "3", "4", "5", "6", "7", "8", "9",
              "A", "B", "C", "D", "E", "F">>

IndexOf(table, c) ==
    IF \E i \in 1..Len(table) : table[i] = c
    THEN CHOOSE i \in 1..Len(table) : table[i] = c
    ELSE 0

\* chr / ord on the ASCII range; a control character is the token "ctl".
Chr(b) == IF b >= 32 /\ b <= 126 THEN AsciiChars[b - 31] ELSE "ctl"
Ord(c) == IndexOf(AsciiChars, c) + 31

\* Conversions that can raise return [ok, v]; ok = FALSE is the exception.
Ok(v) == [ok |-> TRUE, v |-> v]
Err == [ok |-> FALSE, v |-> <<>>]

HexVal(c) ==
    IF IndexOf(HexChars, c) > 0 THEN IndexOf(HexChars, c) - 1
    ELSE IF IndexOf(HexUpper, c) > 0 THEN IndexOf(HexUpper, c) - 1
    ELSE -1

\* bytes.fromhex: two hex digits a byte; ValueError on anything else.
RECURSIVE FromHex(_)
FromHex(s) ==
    IF s = <<>> THEN Ok(<<>>)
    ELSE IF Len(s) = 1 \/ HexVal(s[1]) < 0 \/ HexVal(s[2]) < 0 THEN Err
    ELSE LET rest == FromHex(SubSeq(s, 3, Len(s)))
         IN IF rest.ok THEN Ok(<<HexVal(s[1]) * 16 + HexVal(s[2])>> \o rest.v)
            ELSE Err

\* bytes.decode('utf-8') followed by the ASCII check of base64.b64decode: a
\* byte above 127 raises in one or the other (UnicodeDecodeError, ValueError).
RECURSIVE DecodeUtf8(_)
DecodeUtf8(bytes) ==
    IF bytes = <<>> THEN Ok(<<>>)
    ELSE IF Head(bytes) > 127 THEN Err
    ELSE LET rest == DecodeUtf8(Tail(bytes))
         IN IF rest.ok THEN Ok(<<Chr(Head(bytes))>> \o rest.v) ELSE Err

\* str.encode('utf-8') of ASCII text (what Response(value) sends for a str).
RECURSIVE EncodeUtf8(_)
EncodeUtf8(text) ==
    IF text = <<>> THEN <<>> ELSE <<Ord(Head(text))>> \o EncodeUtf8(Tail(text))

\* binascii.a2b_base64 in its default (non-strict) mode, as base64.b64decode
\* calls it: characters outside the alphabet are skipped, '=' ends the data
\* once a quad is complete with it, and leftover characters raise.
RECURSIVE A2bBase64(_, _, _, _, _)
A2bBase64(s, quad_pos, leftchar, pads, out) ==
    IF s = <<>> THEN (IF quad_pos # 0 THEN Err ELSE Ok(out))
    ELSE LET c == Head(s)
             v == IndexOf(B64Chars, c) - 1
         IN IF c = "="
            THEN IF quad_pos >= 2 /\ quad_pos + pads + 1 >= 4 THEN Ok(out)
                 ELSE A2bBase64(Tail(s), quad_pos, leftchar, pads + 1, out)
            ELSE IF v < 0 THEN A2bBase64(Tail(s), quad_pos, leftchar, pads, out)
            ELSE CASE quad_pos = 0 -> A2bBase64(Tail(s), 1, v, 0, out)
                   [] quad_pos = 1 ->
                        A2bBase64(Tail(s), 2, v % 16, 0,
                                  Append(out, leftchar * 4 + (v \div 16)))
                   [] quad_pos = 2 ->
                        A2bBase64(Tail(s), 3, v % 4, 0,
                                  Append(out, leftchar * 16 + (v \div 4)))
                   [] OTHER ->
                        A2bBase64(Tail(s), 0, 0, 0, Append(out, leftchar * 64 + v))

b64decode(s) == A2bBase64(s, 0, 0, 0, <<>>)

HexPrefix == <<"\\", "x">>
HexPrefixLen == 2

\* Lines 493-504: the body of the response for a binary result.
BinaryBody(value) ==
    IF StartsWith(value, HexPrefix)
    THEN LET hex_str == SubSeq(value, HexPrefixLen + 1, Len(value))
             raw == FromHex(hex_str)
             base64_str == IF raw.ok THEN DecodeUtf8(raw.v) ELSE Err
         IN IF base64_str.ok THEN b64decode(base64_str.v) ELSE Err
    ELSE Ok(EncodeUtf8(value))

-----------------------------------------------------------------------------
(* The remote procedures.  Their SQL is not part of server/main.py; they are  *)
(* modelled from the resolution rules the server relies on: the walk of 4.3,  *)
(* the enumeration of 4.2 and the precedence of 4.4.  A path that does not    *)
(* resolve yields no rows.                                                    *)

RECURSIVE RpcResolve(_, _, _)
RpcResolve(d, current, names) ==
    IF names = <<>> THEN [found |-> TRUE, node |-> current]
    ELSE LET c == FindChild(d, get_children_ids(d, current), Head(names))
         IN IF c = None THEN [found |-> FALSE, node |-> None]
            ELSE RpcResolve(d, c, Tail(names))

rpc_get_segment_children(d, path_segments) ==
    LET r == RpcResolve(d, None, path_segments)
    IN IF r.found THEN ItemsOf(d, get_children_ids(d, r.node)) ELSE <<>>

RECURSIVE RpcFirstContent(_, _)
RpcFirstContent(d, ids) ==
    IF ids = <<>> THEN None
    ELSE IF ContentRows(d, Head(ids)) # {} THEN Head(ids)
    ELSE RpcFirstContent(d, Tail(ids))

RpcContentId(d, node) ==
    LET bound == FilterRel(d.segment_relation, node, 2)
        direct == RpcFirstContent(d, FilterRel(d.segment_relation, node, 0))
        indirect == RpcFirstContent(d, FilterRel(d.segment_relation, node, 1))
    IN IF ContentRows(d, node) # {} THEN node
       ELSE IF bound # <<>> /\ ContentRows(d, Head(bound)) # {} THEN Head(bound)
       ELSE IF direct # None THEN direct
       ELSE indirect

rpc_get_content_by_path(d, path_segments) ==
    LET r == RpcResolve(d, None, path_segments)
    IN IF ~r.found \/ r.node = None THEN <<>>
       ELSE SetToSeq(ContentRows(d, RpcContentId(d, r.node)))

\* The ids below a segment along type-0 relations, the segment included.
RECURSIVE Descendants(_, _, _)
Descendants(d, seen, frontier) ==
    IF frontier = {} THEN seen
    ELSE LET next == UNION {SeqToSet(get_children_ids(d, n)) : n \in frontier}
         IN Descendants(d, seen \cup frontier, next \ (seen \cup frontier))

rpc_get_segment_tree(d, root_segment_id) == Descendants(d, {}, {root_segment_id})

-----------------------------------------------------------------------------
(* PostgreSQL-function strategy.  rpc is what supabase.rpc(..).execute() does *)
(* in this request: "ok" (rows), "none" (data is None) or "raise".            *)

get_children_pg_function(d, rpc, segments) ==
    IF rpc = "raise" THEN Failure(-5, "exception")
    ELSE IF rpc = "none" THEN Failure(-1, "No data returned")
    ELSE Listing(rpc_get_segment_children(d, segments), FALSE, None)

\* except Exception as e: return {'code': -5, 'message': str(e)}
Caught(m) == IF m.raised THEN Failure(-5, "exception") ELSE m

PgContentRows(d, tables_down, rows) ==
    IF rows = <<>> THEN Failure(-1, "Content not found")
    ELSE Caught(Materialize(d, tables_down, rows[1]))

get_content_pg_function(d, rpc, tables_down, segments) ==
    IF rpc = "raise" THEN Failure(-5, "exception")
    ELSE IF rpc = "none" THEN PgContentRows(d, tables_down, <<>>)
    ELSE PgContentRows(d, tables_down, rpc_get_content_by_path(d, segments))

fetch_tree(d, rpc, segment_id) ==
    IF rpc = "raise" THEN Failure(-5, "exception")
    ELSE IF rpc = "none" THEN Failure(-1, "Failed to fetch tree")
    ELSE [Failure(0, "Tree fetched successfully")
            EXCEPT !.tree = rpc_get_segment_tree(d, segment_id)]

-----------------------------------------------------------------------------
(* Path tokenizer *)

RECURSIVE SplitSlash(_, _)
\* path_str.split('/') with the empty tokens dropped; cur is the open token.
SplitSlash(s, cur) ==
    IF s = <<>> THEN (IF cur = <<>> THEN <<>> ELSE <<cur>>)
    ELSE IF Head(s) = "/"
         THEN (IF cur = <<>> THEN <<>> ELSE <<cur>>) \o SplitSlash(Tail(s), <<>>)
         ELSE SplitSlash(Tail(s), Append(cur, Head(s)))

parse_path(path_str) ==
    LET p1 == IF StartsWith(path_str, <<"/">>) THEN Tail(path_str) ELSE path_str
        has_trailing_slash == p1 # <<>> /\ p1[Len(p1)] = "/"
        p2 == IF has_trailing_slash THEN SubSeq(p1, 1, Len(p1) - 1) ELSE p1
    IN [segments |-> SplitSlash(p2, <<>>), has_trailing_slash |-> has_trailing_slash]

-----------------------------------------------------------------------------
(* handle_path *)

\* jsonify({'code': .., 'message': ..}), status
JsonFailure(status, code, message) ==
    [status |-> status, kind |-> "json", has_code |-> TRUE, code |-> code,
     has_error |-> FALSE, message |-> message, type |-> "", items |-> <<>>,
     has_segment_id |-> FALSE, segment_id |-> None, tree |-> {},
     body |-> <<>>, mimetype |-> "application/json"]

\* jsonify({'error': 'Server error', 'message': str(e)}), 500: no 'code' key
JsonServerError ==
    [JsonFailure(500, 0, "exception") EXCEPT !.has_code = FALSE, !.has_error = TRUE]

JsonSegmentList(data) ==
    [JsonFailure(200, 0, "Children fetched successfully")
       EXCEPT !.type = "segment_list", !.items = data.items,
              !.has_segment_id = data.has_segment_id,
              !.segment_id = data.segment_id]

JsonSegmentTree(segment_id, tree_result) ==
    [JsonFailure(200, 0, "Tree fetched successfully")
       EXCEPT !.type = "segment_tree", !.has_segment_id = TRUE,
              !.segment_id = segment_id, !.tree = tree_result.tree]

\* Response(data, mimetype=content_type)
RawResponse(body, mimetype) ==
    [JsonFailure(200, 0, "") EXCEPT !.kind = "raw", !.has_code = FALSE,
                                    !.body = body, !.mimetype = mimetype]

NoResult == Failure(0, "no strategy ran")

Out(c, pg, r, resp) == [calls |-> c, pg_result |-> pg, result |-> r, response |-> resp]

\* A handler that runs the multi-query listing after a failed fetch_tree
TreeReply_ListingFallback(segment_id, tree_result) ==
    IF tree_result.code < 0
    THEN Out(<<"resolve_path_to_id", "fetch_tree", "get_children_multi_query">>,
             NoResult, tree_result,
             JsonFailure(500, tree_result.code, tree_result.message))
    ELSE Out(<<"resolve_path_to_id", "fetch_tree">>, NoResult, tree_result,
             JsonSegmentTree(segment_id, tree_result))

\* Lines 424-446, once the path is known not to be empty and the tables answer
TreeReply(segment_id, tree_result) ==
    IF tree_result.code < 0
    THEN Out(<<"resolve_path_to_id", "fetch_tree">>, NoResult, tree_result,
             JsonFailure(500, tree_result.code, tree_result.message))
    ELSE Out(<<"resolve_path_to_id", "fetch_tree">>, NoResult, tree_result,
             JsonSegmentTree(segment_id, tree_result))

TreeOf(d, r, segment_id) ==
    IF Falsy(segment_id)
    THEN Out(<<"resolve_path_to_id">>, NoResult, NoResult,
             JsonFailure(404, -1, "Segment not found"))
    ELSE TreeReply(segment_id, fetch_tree(d, r.rpc, segment_id))

\* Lines 417-446: fetch_type == 'tree' and has_trailing_slash
HandleTree(d, r, segments) ==
    IF Len(segments) = 0
    THEN Out(<<>>, NoResult, NoResult, JsonFailure(400, -1, "Cannot fetch tree for root"))
    ELSE IF r.tables_down
    THEN Out(<<"resolve_path_to_id">>, NoResult, NoResult, JsonServerError)
    ELSE TreeOf(d, r, resolve_path_to_id(d, segments))

\* Lines 457-473: the response for the listing result res; an exception of
\* the fallback ends in the handler's except clause (lines 518-520).
ChildrenReply(c, first, res) ==
    IF res.raised THEN Out(c, first, res, JsonServerError)
    ELSE IF res.code < 0 THEN Out(c, first, res, JsonFailure(404, res.code, res.message))
    ELSE Out(c, first, res, JsonSegmentList(res))

\* A handler that answers a failed fallback with the first strategy's error
ChildrenFallback_FirstError(d, r, segments, first) ==
    IF first.code < 0
    THEN IF get_children_multi_query(d, r.tables_down, segments).code < 0
         THEN ChildrenReply(<<"get_children_pg_function", "get_children_multi_query">>,
                            first, first)
         ELSE ChildrenReply(<<"get_children_pg_function", "get_children_multi_query">>,
                            first, get_children_multi_query(d, r.tables_down, segments))
    ELSE ChildrenReply(<<"get_children_pg_function">>, first, first)

\* Lines 453-455: the fallback, taken on a negative code
ChildrenFallback(d, r, segments, first) ==
    IF first.code < 0
    THEN ChildrenReply(<<"get_children_pg_function", "get_children_multi_query">>,
                       first, get_children_multi_query(d, r.tables_down, segments))
    ELSE ChildrenReply(<<"get_children_pg_function">>, first, first)

\* Lines 449-473: trailing slash, list the children
HandleChildren(d, r, segments) ==
    ChildrenFallback(d, r, segments, get_children_pg_function(d, r.rpc, segments))

\* Lines 493-504: the binary body; an exception of the decoding ends in the
\* handler's except clause.
BinaryReply(c, first, res, byte_data) ==
    IF byte_data.ok THEN Out(c, first, res, RawResponse(byte_data.v, res.content_type))
    ELSE Out(c, first, res, JsonServerError)

\* Lines 484-516: the response for the content result res.  The JSON branch
\* (line 507) is never taken: no content_type of the strategies starts with
\* application/json.
ContentReply(c, first, res) ==
    IF res.raised THEN Out(c, first, res, JsonServerError)
    ELSE IF res.code < 0 THEN Out(c, first, res, JsonFailure(404, res.code, res.message))
    ELSE IF res.is_binary THEN BinaryReply(c, first, res, BinaryBody(res.value))
    ELSE Out(c, first, res, RawResponse(EncodeUtf8(res.value), res.content_type))

\* A handler that retries only after backend-call-failed and not-found
ContentFallback_OnlyRecoverable(d, r, segments, first) ==
    IF first.code = -5 \/ first.code = -1
    THEN ContentReply(<<"get_content_pg_function", "get_content_multi_query">>,
                      first, get_content_multi_query(d, r.tables_down, segments))
    ELSE ContentReply(<<"get_content_pg_function">>, first, first)

\* Lines 480-482: the fallback, taken on a negative code
ContentFallback(d, r, segments, first) ==
    IF first.code < 0
    THEN ContentReply(<<"get_content_pg_function", "get_content_multi_query">>,
                      first, get_content_multi_query(d, r.tables_down, segments))
    ELSE ContentReply(<<"get_content_pg_function">>, first, first)

\* Lines 476-516: no trailing slash, return the content
HandleContent(d, r, segments) ==
    ContentFallback(d, r, segments,
                    get_content_pg_function(d, r.rpc, r.tables_down, segments))

\* Lines 416-516: the three kinds of request
Dispatch(d, r, parsed) ==
    IF r.fetch_type = "tree" /\ parsed.has_trailing_slash
    THEN HandleTree(d, r, parsed.segments)
    ELSE IF parsed.has_trailing_slash
    THEN HandleChildren(d, r, parsed.segments)
    ELSE HandleContent(d, r, parsed.segments)

handle_path(d, r) ==
    IF ~r.token_ok
    THEN Out(<<>>, NoResult, NoResult, JsonFailure(401, -2, "Invalid or missing token"))
    ELSE IF ~r.client_ok
    THEN Out(<<>>, NoResult, NoResult,
             JsonFailure(500, -3, "Supabase client not initialized"))
    ELSE Dispatch(d, r, parse_path(<<"/">> \o r.path))

-----------------------------------------------------------------------------
(* Fixtures: the tables the backend can hold *)

Seg(id, name) == [id |-> id, name |-> name]
Content(id, type_code, value) == [id |-> id, type_code |-> type_code, value |-> value]
Rel(a, b, t) == [segment_1 |-> a, segment_2 |-> b, type |-> t]
Blob(id, data) == [id |-> id, data |-> data]

Tables(segment, content, segment_relation, content_binary) ==
    [segment |-> segment, content |-> content,
     segment_relation |-> segment_relation, content_binary |-> content_binary]

\* The sequences of at most n distinct elements of S
DistinctSeqs(S, n) ==
    {s \in UNION {[1..k -> S] : k \in 0..n} :
        \A i, j \in 1..Len(s) : i # j => s[i] # s[j]}

\* What the client stores for a byte string: bytes -> base64 text -> BYTEA,
\* which the backend returns hex-encoded (comment at lines 494-495).
RECURSIVE B64Encode(_)
B64Encode(b) ==
    IF b = <<>> THEN <<>>
    ELSE IF Len(b) = 1
    THEN <<B64Chars[(b[1] \div 4) + 1], B64Chars[(b[1] % 4) * 16 + 1], "=", "=">>
    ELSE IF Len(b) = 2
    THEN <<B64Chars[(b[1] \div 4) + 1],
           B64Chars[(b[1] % 4) * 16 + (b[2] \div 16) + 1],
           B64Chars[(b[2] % 16) * 4 + 1], "=">>
    ELSE <<B64Chars[(b[1] \div 4) + 1],
           B64Chars[(b[1] % 4) * 16 + (b[2] \div 16) + 1],
           B64Chars[(b[2] % 16) * 4 + (b[3] \div 64) + 1],
           B64Chars[(b[3] % 64) + 1]>> \o B64Encode(SubSeq(b, 4, Len(b)))

RECURSIVE HexEncode(_)
HexEncode(b) ==
    IF b = <<>> THEN <<>>
    ELSE <<HexChars[(Head(b) \div 16) + 1], HexChars[(Head(b) % 16) + 1]>>
         \o HexEncode(Tail(b))

StoredHex(bytes) == HexEncode(EncodeUtf8(B64Encode(bytes)))

ByteSamples == {0, 65, 255}
ByteStrings == UNION {[1..k -> ByteSamples] : k \in 0..MaxBytes}

\* Blob data: well-formed with and without the \x marker, and malformed
\* (not hex, not UTF-8, not base64).
BlobData ==
    {HexPrefix \o StoredHex(b) : b \in ByteStrings}
    \cup {StoredHex(b) : b \in ByteStrings}
    \cup {HexPrefix \o <<"z", "z">>, HexPrefix \o <<"f", "f">>,
          HexPrefix \o HexEncode(EncodeUtf8(<<"Q">>))}

Names == {<<"a">>, <<"b">>}

DefaultSegments == {Seg("s1", <<"a">>), Seg("s2", <<"b">>)}
TextContents == {Content("c1", 3, <<"h", "i">>), Content("c2", 1, <<"y", "o">>)}

\* Family A: the relations out of the root segment s1 vary, in every order.
RelRows ==
    {Rel("s1", "s2", 0), Rel("s1", "c1", 0), Rel("s1", "c1", 1),
     Rel("s1", "c1", 2), Rel("s1", "c2", 2), Rel("s1", "x", 2), Rel("s1", "s2", 2)}

RelationFixtures ==
    {Tables(DefaultSegments, TextContents, rels, {}) :
        rels \in DistinctSeqs(RelRows, MaxRels)}

\* Family B: s1/s2 with s2 bound to content c1; the content record varies.
BoundRelations == <<Rel("s1", "s2", 0), Rel("s2", "c1", 2)>>
BlobId == <<"b", "1">>
MissingBlobId == <<"b", "9">>

ContentFixtures ==
    {Tables(DefaultSegments, {c}, BoundRelations, {}) :
        c \in {Content("c1", 3, <<"h", "i">>), Content("c1", 1, NoneValue),
               Content("c1", 21, BinaryMarker \o MissingBlobId)}}
    \cup {Tables(DefaultSegments, {Content("c1", t, BinaryMarker \o BlobId)},
                 BoundRelations, {Blob(BlobId, data)}) :
            t \in {10, 5}, data \in BlobData}
    \cup {Tables(DefaultSegments, {Content("s2", 2, <<"h", "i">>)},
                 <<Rel("s1", "s2", 0)>>, {})}

Fixtures == RelationFixtures \cup ContentFixtures

-----------------------------------------------------------------------------
(* Requests *)

RECURSIVE JoinSlash(_)
JoinSlash(tokens) ==
    IF tokens = <<>> THEN <<>>
    ELSE IF Len(tokens) = 1 THEN Head(tokens)
    ELSE Head(tokens) \o <<"/">> \o JoinSlash(Tail(tokens))

\* The path variable Flask passes to handle_path (without the leading '/')
PathStrings ==
    {JoinSlash(t) \o slash :
        t \in UNION {[1..k -> Names] : k \in 0..MaxPathLen},
        slash \in {<<>>, <<"/">>}}

Request(token_ok, client_ok, path, fetch_type, rpc, tables_down) ==
    [token_ok |-> token_ok, client_ok |-> client_ok, path |-> path,
     fetch_type |-> fetch_type, rpc |-> rpc, tables_down |-> tables_down]

Requests ==
    {Request(TRUE, TRUE, p, f, rpc, down) :
        p \in PathStrings, f \in {"normal", "tree"},
        rpc \in {"ok", "none", "raise"}, down \in BOOLEAN}
    \cup {Request(FALSE, TRUE, <<"a">>, "normal", "ok", FALSE),
          Request(TRUE, FALSE, <<"a">>, "normal", "ok", FALSE)}

NoRequest == Request(TRUE, TRUE, <<>>, "none", "ok", FALSE)
NoResponse == [JsonFailure(0, 0, "") EXCEPT !.kind = "none", !.has_code = FALSE]
NoChildren == [called |-> FALSE, parent_id |-> None, ids |-> <<>>]

-----------------------------------------------------------------------------
(* The server: one request at a time against an unchanging backend *)

Init ==
    /\ db \in Fixtures
    /\ req = NoRequest
    /\ calls = <<>>
    /\ pg_result = NoResult
    /\ result = NoResult
    /\ response = NoResponse
    /\ children = NoChildren

\* A request is handled from start to end before the next one is taken.
Idle == response = NoResponse

Handled(r, o) ==
    /\ req' = r
    /\ calls' = o.calls
    /\ pg_result' = o.pg_result
    /\ result' = o.result
    /\ response' = o.response
    /\ UNCHANGED <<db, children>>

HandlePath(r) == Idle /\ Handled(r, handle_path(db, r))

\* The response is sent and the request's state is dropped: nothing of one
\* request is kept for the next.
Finish ==
    /\ ~Idle
    /\ req' = NoRequest
    /\ calls' = <<>>
    /\ pg_result' = NoResult
    /\ result' = NoResult
    /\ response' = NoResponse
    /\ UNCHANGED <<db, children>>

Next == (\E r \in Requests : HandlePath(r)) \/ Finish

Spec == Init /\ [][Next]_vars

-----------------------------------------------------------------------------
(* get_children_ids on its own, over a wider set of tables *)

ChildSegments == {Seg("s1", <<"a">>), Seg("s2", <<"b">>), Seg("s3", <<"a">>)}

ChildRelRows ==
    {Rel(a, b, t) : a \in {"s1", "s2"}, b \in {"s1", "s2", "s3", "c1"}, t \in {0, 1, 2}}

ChildFixtures ==
    {Tables(segs, {Content("c1", 1, <<"h", "i">>)}, rels, {}) :
        segs \in SUBSET ChildSegments,
        rels \in DistinctSeqs(ChildRelRows, MaxChildRels)}

InitChildren ==
    /\ db \in ChildFixtures
    /\ req = NoRequest
    /\ calls = <<>>
    /\ pg_result = NoResult
    /\ result = NoResult
    /\ response = NoResponse
    /\ children = NoChildren

GetChildren(parent_id) ==
    /\ ~children.called
    /\ children' = [called |-> TRUE, parent_id |-> parent_id,
                    ids |-> get_children_ids(db, parent_id)]
    /\ UNCHANGED <<db, req, calls, pg_result, result, response>>

Returned ==
    /\ children.called
    /\ children' = NoChildren
    /\ UNCHANGED <<db, req, calls, pg_result, result, response>>

NextChildren ==
    (\E parent_id \in {None, "s1", "s2", "s3"} : GetChildren(parent_id)) \/ Returned

SpecChildren == InitChildren /\ [][NextChildren]_vars

-----------------------------------------------------------------------------
(* Properties *)

RelationRows(d) == {d.segment_relation[i] : i \in 1..Len(d.segment_relation)}
SegmentIds(d) == {s.id : s \in d.segment}
HasParent(d, id) == \E r \in RelationRows(d) : r.type = 0 /\ r.segment_2 = id

WithSegment(d, seg) == [d EXCEPT !.segment = @ \cup {seg}]

\* C3: get_children_ids(None) is the set of all segment ids minus the targets
\* of type-0 relations; a new segment without an incoming type-0 relation adds
\* exactly its id to that set; for a parent, the result is the set of targets
\* of the type-0 relations whose source is that parent.
C3_RootAndChildren ==
    children.called =>
        IF children.parent_id = None
        THEN /\ SeqToSet(children.ids)
                  = SegmentIds(db) \ {r.segment_2 : r \in {x \in RelationRows(db) : x.type = 0}}
             /\ \A seg \in {Seg("n1", <<"a">>)} \cup ChildSegments :
                    (seg.id \notin SegmentIds(db) /\ ~HasParent(db, seg.id))
                        => SeqToSet(get_children_ids(WithSegment(db, seg), None))
                             = SeqToSet(children.ids) \cup {seg.id}
        ELSE SeqToSet(children.ids)
               = {r.segment_2 : r \in {x \in RelationRows(db) :
                                          x.type = 0 /\ x.segment_1 = children.parent_id}}

\* A root listing that leaves out a segment with a parent, keeps the target of
\* a type-1 or type-2 relation, and to which a segment can still be added.
C3_Witness ==
    /\ children.called
    /\ children.parent_id = None
    /\ \E id \in SegmentIds(db) : HasParent(db, id)
    /\ \E r \in RelationRows(db) : r.type # 0 /\ r.segment_2 \in SeqToSet(children.ids)
    /\ \E seg \in ChildSegments : seg.id \notin SegmentIds(db) /\ ~HasParent(db, seg.id)

\* The request of the current state, as handle_path parsed it
ReqSegments == parse_path(<<"/">> \o req.path).segments
ReqTrailing == parse_path(<<"/">> \o req.path).has_trailing_slash
Served == ~Idle /\ req.token_ok /\ req.client_ok
ListingRequest == Served /\ ReqTrailing /\ req.fetch_type # "tree"
ContentRequest == Served /\ ~ReqTrailing
Called(f) == \E i \in 1..Len(calls) : calls[i] = f
TimesCalled(f) == Cardinality({i \in 1..Len(calls) : calls[i] = f})

\* The targets of the type-t relations out of a segment that are real content
TierContent(d, id, t) ==
    {r.segment_2 : r \in {x \in RelationRows(d) :
                             x.segment_1 = id /\ x.type = t /\ is_content(d, x.segment_2)}}

\* The multi-query content strategy ran to its end for a path that resolves
\* to a segment which is not itself a content record.
MultiQueryOnSegment ==
    /\ ContentRequest
    /\ Called("get_content_multi_query")
    /\ ~result.raised
    /\ ~Falsy(resolve_path_to_id(db, ReqSegments))
    /\ ~is_content(db, resolve_path_to_id(db, ReqSegments))

\* C1: the tiers are tried in the order type 2, type 0, type 1: with a type-2
\* relation to a real content the content returned is such a target, whatever
\* lower-tier content there is and whatever the order of the rows; a lower
\* tier decides only when every earlier tier holds no real content.
C1_Precedence ==
    MultiQueryOnSegment =>
        LET id == resolve_path_to_id(db, ReqSegments)
            bound == TierContent(db, id, 2)
            direct == TierContent(db, id, 0)
            indirect == TierContent(db, id, 1)
        IN result.code >= 0 =>
             /\ bound # {} => result.content.id \in bound
             /\ (bound = {} /\ direct # {}) => result.content.id \in direct
             /\ (bound = {} /\ direct = {} /\ indirect # {})
                   => result.content.id \in indirect

\* C2: content-not-found (-2) is returned only when no relation of type 2, 0
\* or 1 out of the resolved segment targets a real content record.
C2_NotFoundOnlyWithoutContent ==
    (MultiQueryOnSegment /\ result.code = -2) =>
        LET id == resolve_path_to_id(db, ReqSegments)
        IN TierContent(db, id, 2) \cup TierContent(db, id, 0)
             \cup TierContent(db, id, 1) = {}

\* The two strategies of the current request, by name
PgName == IF ReqTrailing THEN "get_children_pg_function" ELSE "get_content_pg_function"
MultiName == IF ReqTrailing THEN "get_children_multi_query" ELSE "get_content_multi_query"

\* What the fallback of the current request returns
FallbackResult ==
    IF ReqTrailing THEN get_children_multi_query(db, req.tables_down, ReqSegments)
    ELSE get_content_multi_query(db, req.tables_down, ReqSegments)

\* The response is the one built from the strategy result res.
BuiltFrom(res) ==
    IF ReqTrailing
    THEN response.has_code /\ response.code = 0 /\ response.type = "segment_list"
         /\ response.items = res.items
    ELSE \/ response.kind = "raw" /\ response.mimetype = res.content_type
         \/ response = JsonServerError /\ res.is_binary

\* C4: for listing and content requests the optimized strategy runs first; on
\* a non-negative code the multi-query strategy is not run and the response is
\* built from that result; on a negative code the multi-query strategy runs
\* exactly once, and when it returns a negative code too the response carries
\* the fallback's code and message.
C4_OptimizedFirstThenFallback ==
    (ListingRequest \/ ContentRequest) =>
        /\ calls # <<>> /\ calls[1] = PgName
        /\ TimesCalled(PgName) = 1
        /\ pg_result.code >= 0
             => (calls = <<PgName>> /\ result = pg_result /\ BuiltFrom(pg_result))
        /\ pg_result.code < 0
             => /\ calls = <<PgName, MultiName>>
                /\ (~FallbackResult.raised /\ FallbackResult.code < 0)
                     => /\ response.has_code
                        /\ response.code = FallbackResult.code
                        /\ response.message = FallbackResult.message

\* Both strategies failed, with different codes, on a listing.
C4_Witness ==
    /\ ListingRequest
    /\ calls = <<"get_children_pg_function", "get_children_multi_query">>
    /\ pg_result.code = -5
    /\ response.has_code /\ response.code = -1
    /\ response.message = "Path does not exist"

\* The remote procedure of the current request threw, returned None or
\* returned no rows.
RpcFailedOrEmpty ==
    \/ req.rpc \in {"raise", "none"}
    \/ ReqTrailing /\ rpc_get_segment_children(db, ReqSegments) = <<>>
    \/ ~ReqTrailing /\ rpc_get_content_by_path(db, ReqSegments) = <<>>

\* C5: whenever the remote procedure throws, returns no rows or signals
\* not-found, the optimized strategy yields a negative code and the request is
\* answered by the multi-query strategy, for listings as for content.
C5_FallbackOnFailureOrEmpty ==
    ((ListingRequest \/ ContentRequest) /\ RpcFailedOrEmpty)
        => (pg_result.code < 0 /\ Called(MultiName))

\* C6: on the same tables and path the two strategies agree on success versus
\* failure, and on success on the items (listing) or on the content record,
\* value and content type (content).
C6_StrategyEquivalence ==
    (ListingRequest \/ ContentRequest) =>
        IF ReqTrailing
        THEN LET pg == get_children_pg_function(db, "ok", ReqSegments)
                 mq == get_children_multi_query(db, FALSE, ReqSegments)
             IN /\ (pg.code >= 0) = (mq.code >= 0)
                /\ pg.code >= 0 => SeqToSet(pg.items) = SeqToSet(mq.items)
        ELSE LET pg == get_content_pg_function(db, "ok", FALSE, ReqSegments)
                 mq == get_content_multi_query(db, FALSE, ReqSegments)
             IN /\ (pg.code >= 0) = (~mq.raised /\ mq.code >= 0)
                /\ pg.code >= 0 => /\ pg.content = mq.content
                                   /\ pg.value = mq.value
                                   /\ pg.content_type = mq.content_type

\* The walk of the names from the root, as a relation: the ids a name sequence
\* can lead to along type-0 relations and exact segment names.
RootIds(d) == SegmentIds(d) \ {r.segment_2 : r \in {x \in RelationRows(d) : x.type = 0}}
Named(d, ids, name) == {id \in ids : \E sg \in d.segment : sg.id = id /\ sg.name = name}
ChildIds(d, id) ==
    {r.segment_2 : r \in {x \in RelationRows(d) : x.type = 0 /\ x.segment_1 = id}}

RECURSIVE Walk(_, _, _)
Walk(d, level, names) ==
    IF names = <<>> THEN level
    ELSE Walk(d, Named(d, UNION {ChildIds(d, id) : id \in level}, Head(names)),
              Tail(names))

PathExists(d, names) ==
    names # <<>> /\ Walk(d, Named(d, RootIds(d), Head(names)), Tail(names)) # {}

TokenSeqs == UNION {[1..k -> Names] : k \in 0..MaxPathLen}

\* C7: what resolve_path_to_id returns for the empty name sequence differs
\* from what it returns for a sequence that matches no path.
C7_RootDistinctFromNotFound ==
    (ContentRequest /\ ReqSegments = <<>> /\ Called("get_content_multi_query")) =>
        \A p \in TokenSeqs :
            (p # <<>> /\ ~PathExists(db, p))
                => resolve_path_to_id(db, p) # resolve_path_to_id(db, ReqSegments)

\* C8: every failure response of handle_path carries a negative code and a
\* message.
C8_FailuresTagged ==
    (~Idle /\ response.status # 200) =>
        (response.has_code /\ response.code < 0 /\ response.message # "")

\* C9 (as the specification states it): the fallback runs only after backend-call-failed (-5) and
\* not-found (-1); binary-blob-missing (-4) is returned as is, without a run
\* of get_content_multi_query.
C9_FallbackOnlyWhenRecoverable ==
    (ListingRequest \/ ContentRequest) =>
        /\ Called(MultiName) => pg_result.code \in {-5, -1}
        /\ pg_result.code = -4
             => (calls = <<PgName>> /\ result = pg_result
                 /\ response.has_code /\ response.code = -4)

\* C9, amended: the fallback runs after every negative code of the optimized
\* strategy and only then; after binary-blob-missing (-4) too
\* get_content_multi_query runs once and the response is the fallback's.
C9_FallbackOnEveryNegativeCode ==
    (ListingRequest \/ ContentRequest) =>
        /\ pg_result.code \in {0, -1, -4, -5}
        /\ Called(MultiName) <=> pg_result.code < 0
        /\ pg_result.code = -4
             => /\ calls = <<"get_content_pg_function", "get_content_multi_query">>
                /\ result = FallbackResult
                /\ (~result.raised /\ result.code < 0)
                     => (response.has_code /\ response.code = result.code
                         /\ response.message = result.message)

\* The optimized strategy found the blob missing and the fallback ran.
C9_Witness ==
    /\ ContentRequest
    /\ pg_result.code = -4
    /\ calls = <<"get_content_pg_function", "get_content_multi_query">>
    /\ response.has_code /\ response.code = -4

\* hex-decode, read as UTF-8, base64-decode
HexThenBase64(hex_str) ==
    IF ~FromHex(hex_str).ok THEN Err
    ELSE IF ~DecodeUtf8(FromHex(hex_str).v).ok THEN Err
    ELSE b64decode(DecodeUtf8(FromHex(hex_str).v).v)

WithoutHexPrefix(data) ==
    IF StartsWith(data, HexPrefix) THEN SubSeq(data, HexPrefixLen + 1, Len(data))
    ELSE data

\* C10: the body of a binary content is base64-decode(utf8(hex-decode(d))),
\* d being the blob data without its optional \x marker; the stored form of
\* any byte string, with or without the marker, gives back the byte string.
C10_BinaryRoundTrip ==
    (ContentRequest /\ ~result.raised /\ result.code = 0 /\ result.is_binary) =>
        /\ HexThenBase64(WithoutHexPrefix(result.value)).ok
             => /\ response.kind = "raw"
                /\ response.body = HexThenBase64(WithoutHexPrefix(result.value)).v
        /\ \A b \in ByteStrings :
             WithoutHexPrefix(result.value) = StoredHex(b) => response.body = b

-----------------------------------------------------------------------------
(* Listings of a named container *)

\* C11: a successful listing of a non-empty container path carries the id the
\* path resolves to as segment_id, and that segment's type-0 children as
\* items, whichever strategy produced the listing.
C11_ListingCarriesSegmentId ==
    (ListingRequest /\ PathExists(db, ReqSegments) /\ response.status = 200) =>
        /\ response.type = "segment_list"
        /\ response.has_segment_id
        /\ response.segment_id = resolve_path_to_id(db, ReqSegments)
        /\ response.items = ItemsOf(db, get_children_ids(db, response.segment_id))

-----------------------------------------------------------------------------
(* The walk of the names *)

\* The ids at the end of a chain root child, child, .. along type-0 relations
\* whose segment rows carry the names in order
Reached(d, names) == Walk(d, Named(d, RootIds(d), Head(names)), Tail(names))

\* resolve_path_to_id returns an id exactly when such a chain ends in it
ResolvesByChain(d, names) ==
    /\ resolve_path_to_id(d, names) # None
         => resolve_path_to_id(d, names) \in Reached(d, names)
    /\ Reached(d, names) # {} => resolve_path_to_id(d, names) # None

\* A request whose names lead nowhere, answered without an exception of the
\* tables
MissingPathRequest ==
    Served /\ ~req.tables_down /\ ReqSegments # <<>> /\ ~PathExists(db, ReqSegments)

\* C12: resolve_path_to_id returns an id iff a chain of type-0 children with
\* exactly the given names leads to it from the root, and a leaf or container
\* request for a path without such a chain ends with the path-not-found
\* code -1.
C12_WalkWithoutBacktracking ==
    /\ \A p \in TokenSeqs \ {<<>>} : ResolvesByChain(db, p)
    /\ MissingPathRequest => (response.has_code /\ response.code = -1)

-----------------------------------------------------------------------------
(* Tree requests *)

TreeRequest == Served /\ ReqTrailing /\ req.fetch_type = "tree"
TreeTarget == resolve_path_to_id(db, ReqSegments)
StrategyNames ==
    {"get_children_pg_function", "get_children_multi_query",
     "get_content_pg_function", "get_content_multi_query"}

\* The tree request of a path that resolves, the tables answering
ResolvedTree ==
    /\ calls = <<"resolve_path_to_id", "fetch_tree">>
    /\ result = fetch_tree(db, req.rpc, TreeTarget)
    /\ req.rpc = "raise" => (response.has_code /\ response.code = -5)
    /\ req.rpc = "none" => (response.has_code /\ response.code = -1)
    /\ req.rpc = "ok" => /\ response.type = "segment_tree"
                         /\ response.code = 0
                         /\ response.segment_id = TreeTarget
                         /\ response.tree = rpc_get_segment_tree(db, TreeTarget)

\* C13: a tree request never runs a listing or content strategy; the empty
\* path ends with -1 and no call at all, a path that does not resolve ends
\* with -1 and no call of fetch_tree, and otherwise fetch_tree runs once on
\* the resolved id, its negative code (-5, -1) ends the request, and only its
\* non-negative result gives a 'segment_tree' response with the resolved id.
\* (An exception of the tables during the resolution is not part of this
\* statement; fetch_tree is not called then either.)
C13_TreeWithoutFallback ==
    TreeRequest =>
        /\ \A f \in StrategyNames : ~Called(f)
        /\ TimesCalled("fetch_tree") <= 1
        /\ ReqSegments = <<>>
             => (calls = <<>> /\ response.has_code /\ response.code = -1)
        /\ (ReqSegments # <<>> /\ ~req.tables_down /\ TreeTarget = None)
             => /\ calls = <<"resolve_path_to_id">>
                /\ response.has_code /\ response.code = -1
        /\ (ReqSegments # <<>> /\ ~req.tables_down /\ TreeTarget # None)
             => ResolvedTree
        /\ response.type = "segment_tree"
             => /\ result.code >= 0
                /\ TimesCalled("fetch_tree") = 1
                /\ response.segment_id = TreeTarget
        /\ Called("fetch_tree") => (result.code < 0 <=> response.status = 500)

\* A tree request whose path resolves and whose remote procedure raises
C13_Witness ==
    /\ TreeRequest
    /\ TreeTarget # None
    /\ req.rpc = "raise"
    /\ calls = <<"resolve_path_to_id", "fetch_tree">>
    /\ response.code = -5

=============================================================================
